---- MODULE Spec2Model ----
(***************************************************************************)
(* A model of the CHIP-8 interpreter: the CPU (cpu.rs), its Display        *)
(* (display.rs) and Keypad (keypad.rs), driven through the public          *)
(* operations that main.rs calls.                                          *)
(*                                                                         *)
(* Arrays are functions over 0..n-1.  Option<u8> is a sequence: << >> is   *)
(* None and <<x>> is Some(x).  A Rust panic (index out of bounds, slice    *)
(* out of range, arithmetic overflow when overflow checks are compiled     *)
(* in) unwinds the only thread of the process: the field "panicked" of a   *)
(* machine records it, and a panicked machine takes no further step.       *)
(* main_pc is the position of main: before its call of load_rom, or in     *)
(* its loop.  overflow_checks is the build profile: whether integer        *)
(* overflow panics (debug) or wraps (release).                             *)
(***************************************************************************)
EXTENDS Integers, Naturals, Sequences, FiniteSets, TLC

VARIABLES cpu, overflow_checks, main_pc

vars == <<cpu, overflow_checks, main_pc>>

----------------------------------------------------------------------------
(* Program constants *)

CARRY_FLAG == 15

STACK_SIZE == 16

MEMORY_SIZE == 4096

NUM_REGISTERS == 16

NUM_KEYS == 16

DISPLAY_WIDTH == 64

DISPLAY_HEIGHT == 32

FONT_SIZE == 80

PROGRAM_START == 512

CHIP8_FONT ==
    << 240, 144, 144, 144, 240,
        32,  96,  32,  32, 112,
       240,  16, 240, 128, 240,
       240,  16, 240,  16, 240,
       144, 144, 240,  16,  16,
       240, 128, 240,  16, 240,
       240, 128, 240, 144, 240,
       240,  16,  32,  64,  64,
       240, 144, 240, 144, 240,
       240, 144, 240,  16, 240,
       240, 144, 240, 144, 144,
       224, 144, 224, 144, 224,
       240, 128, 128, 128, 240,
       224, 144, 144, 144, 224,
       240, 128, 240, 128, 240,
       240, 128, 240, 128, 128 >>

----------------------------------------------------------------------------
(* Fixed-width integer arithmetic of the source language *)

\* bit i of a
Bit(a, i) == (a \div (2 ^ i)) % 2

\* a & b on 16-bit operands
BitAnd(a, b) ==
    LET RECURSIVE go(_)
        go(i) == IF i = 16 THEN 0
                 ELSE (2 ^ i) * (Bit(a, i) * Bit(b, i)) + go(i + 1)
    IN go(0)

\* a | b on 16-bit operands
BitOr(a, b) ==
    LET RECURSIVE go(_)
        go(i) == IF i = 16 THEN 0
                 ELSE (2 ^ i) * (IF Bit(a, i) + Bit(b, i) > 0 THEN 1 ELSE 0) + go(i + 1)
    IN go(0)

\* a ^ b on 16-bit operands
BitXor(a, b) ==
    LET RECURSIVE go(_)
        go(i) == IF i = 16 THEN 0
                 ELSE (2 ^ i) * ((Bit(a, i) + Bit(b, i)) % 2) + go(i + 1)
    IN go(0)

\* `n as u8`: truncation to the low 8 bits (two's complement for n < 0)
AsU8(n) == n % 256

\* `b as i8`: reinterpretation of a byte as a signed 8-bit value
AsI8(b) == IF b >= 128 THEN b - 256 ELSE b

\* an i8 result that does not fit: wrapped when overflow checks are off
WrapI8(n) == ((n + 128) % 256) - 128

FitsI8(n) == n >= -128 /\ n <= 127

----------------------------------------------------------------------------
(* Option<u8> *)

None == << >>

Some(x) == <<x>>

----------------------------------------------------------------------------
(* Keypad (keypad.rs) *)

Keypad_new == [keys |-> [k \in 0..(NUM_KEYS - 1) |-> FALSE]]

\* the index expression self.keys[index] panics unless this holds
key_index_ok(index) == index >= 0 /\ index < NUM_KEYS

get_key_state(keypad, index) == keypad.keys[index]

set_key_state(keypad, index, state) ==
    [keypad EXCEPT !.keys[index] = state]

----------------------------------------------------------------------------
(* Display (display.rs) *)

Display_new ==
    [memory |-> [r \in 0..(DISPLAY_HEIGHT - 1) |->
                    [c \in 0..(DISPLAY_WIDTH - 1) |-> 0]]]

\* a clear that blanks the top row only
clear_top_row(display) ==
    [display EXCEPT !.memory[0] = [c \in 0..(DISPLAY_WIDTH - 1) |-> 0]]

clear(display) ==
    [display EXCEPT !.memory = [r \in 0..(DISPLAY_HEIGHT - 1) |->
                                   [c \in 0..(DISPLAY_WIDTH - 1) |-> 0]]]

\* sprite is the slice &memory[mem_start..mem_end] as a sequence (1-based);
\* the result of draw carries the new display and the returned collision flag.

\* a blit that lights the cell instead of flipping it
draw_overwrite(display, x, y, sprite) ==
    LET h == Len(sprite)
        RECURSIVE bits(_, _, _)
        \* for i in 0..8, within row j
        bits(acc, j, i) ==
            IF i = 8 THEN acc
            ELSE LET ypos == (y + j) % DISPLAY_HEIGHT
                     xpos == (x + i) % DISPLAY_WIDTH
                     cell == acc.memory[ypos][xpos]
                     bit == BitAnd(sprite[j + 1], 128 \div (2 ^ i)) # 0
                     flipped == [acc.memory EXCEPT ![ypos][xpos] = 1]
                 IN IF cell = 1 /\ bit
                    THEN bits([memory |-> flipped, collision |-> TRUE], j, i + 1)
                    ELSE IF bit
                    THEN bits([memory |-> flipped, collision |-> acc.collision],
                              j, i + 1)
                    ELSE bits(acc, j, i + 1)
        RECURSIVE rows(_, _)
        \* for j in 0..h
        rows(acc, j) ==
            IF j = h THEN acc ELSE rows(bits(acc, j, 0), j + 1)
        done == rows([memory |-> display.memory, collision |-> FALSE], 0)
    IN [display |-> [display EXCEPT !.memory = done.memory],
        collision |-> done.collision]

\* a blit that reads each sprite row least-significant bit first
draw_lsb_first(display, x, y, sprite) ==
    LET h == Len(sprite)
        RECURSIVE bits(_, _, _)
        \* for i in 0..8, within row j
        bits(acc, j, i) ==
            IF i = 8 THEN acc
            ELSE LET ypos == (y + j) % DISPLAY_HEIGHT
                     xpos == (x + i) % DISPLAY_WIDTH
                     cell == acc.memory[ypos][xpos]
                     bit == BitAnd(sprite[j + 1], 2 ^ i) # 0
                     flipped == [acc.memory EXCEPT ![ypos][xpos] = BitXor(cell, 1)]
                 IN IF cell = 1 /\ bit
                    THEN bits([memory |-> flipped, collision |-> TRUE], j, i + 1)
                    ELSE IF bit
                    THEN bits([memory |-> flipped, collision |-> acc.collision],
                              j, i + 1)
                    ELSE bits(acc, j, i + 1)
        RECURSIVE rows(_, _)
        \* for j in 0..h
        rows(acc, j) ==
            IF j = h THEN acc ELSE rows(bits(acc, j, 0), j + 1)
        done == rows([memory |-> display.memory, collision |-> FALSE], 0)
    IN [display |-> [display EXCEPT !.memory = done.memory],
        collision |-> done.collision]

draw(display, x, y, sprite) ==
    LET h == Len(sprite)
        RECURSIVE bits(_, _, _)
        \* for i in 0..8, within row j
        bits(acc, j, i) ==
            IF i = 8 THEN acc
            ELSE LET ypos == (y + j) % DISPLAY_HEIGHT
                     xpos == (x + i) % DISPLAY_WIDTH
                     cell == acc.memory[ypos][xpos]
                     bit == BitAnd(sprite[j + 1], 128 \div (2 ^ i)) # 0
                     flipped == [acc.memory EXCEPT ![ypos][xpos] = BitXor(cell, 1)]
                 IN IF cell = 1 /\ bit
                    THEN bits([memory |-> flipped, collision |-> TRUE], j, i + 1)
                    ELSE IF bit
                    THEN bits([memory |-> flipped, collision |-> acc.collision],
                              j, i + 1)
                    ELSE bits(acc, j, i + 1)
        RECURSIVE rows(_, _)
        \* for j in 0..h
        rows(acc, j) ==
            IF j = h THEN acc ELSE rows(bits(acc, j, 0), j + 1)
        done == rows([memory |-> display.memory, collision |-> FALSE], 0)
    IN [display |-> [display EXCEPT !.memory = done.memory],
        collision |-> done.collision]

----------------------------------------------------------------------------
(* CPU (cpu.rs) *)

\* usize::MAX, the result of 0usize - 1 when overflow checks are compiled
\* out.  Its value (2^64 - 1 or 2^32 - 1) is written as the residue -1: it is
\* only ever used as an array index, where it is out of bounds either way.
USIZE_MAX == -1

\* an index expression a[idx] on an array of length len panics unless this holds
InBounds(idx, len) == idx >= 0 /\ idx < len

\* the thread unwinds; the fields keep what was written before the panic
Panic(m) == [m EXCEPT !.panicked = TRUE]

\* a constructor that leaves the program counter at the bottom of memory
CPU_new_pc_zero ==
    [opcode       |-> 0,
     v            |-> [r \in 0..(NUM_REGISTERS - 1) |-> 0],
     i            |-> 0,
     pc           |-> 0,
     memory       |-> [a \in 0..(MEMORY_SIZE - 1) |->
                          IF a < FONT_SIZE THEN CHIP8_FONT[a + 1] ELSE 0],
     display      |-> Display_new,
     keypad       |-> Keypad_new,
     wait_for_key |-> None,
     stack        |-> [s \in 0..(STACK_SIZE - 1) |-> 0],
     sp           |-> 0,
     delay_timer  |-> 0,
     sound_timer  |-> 0,
     panicked     |-> FALSE]

CPU_new ==
    [opcode       |-> 0,
     v            |-> [r \in 0..(NUM_REGISTERS - 1) |-> 0],
     i            |-> 0,
     pc           |-> PROGRAM_START,
     memory       |-> [a \in 0..(MEMORY_SIZE - 1) |->
                          IF a < FONT_SIZE THEN CHIP8_FONT[a + 1] ELSE 0],
     display      |-> Display_new,
     keypad       |-> Keypad_new,
     wait_for_key |-> None,
     stack        |-> [s \in 0..(STACK_SIZE - 1) |-> 0],
     sp           |-> 0,
     delay_timer  |-> 0,
     sound_timer  |-> 0,
     panicked     |-> FALSE]

\* A ROM file: whether File::open succeeds, the bytes its reader yields, and
\* whether the reader yields an Err after them.
RomFile(bytes) == [open_ok |-> TRUE, bytes |-> bytes, read_err |-> FALSE]

\* memory[pc + i] = byte for each byte in turn; the first index past the end
\* of memory panics, after the bytes before it have been stored.
load_rom(m, file) ==
    IF ~file.open_ok THEN m
    ELSE LET n == Len(file.bytes)
             stored == [m EXCEPT !.memory =
                          [a \in 0..(MEMORY_SIZE - 1) |->
                              IF a >= m.pc /\ a < m.pc + n
                              THEN file.bytes[a - m.pc + 1]
                              ELSE m.memory[a]]]
         IN IF m.pc + n > MEMORY_SIZE THEN Panic(stored) ELSE stored

\* the Option< String > load_rom returns: a message when the open fails or
\* when the reader yields an Err (unless an earlier store has panicked)
load_rom_result(m, file) ==
    IF ~file.open_ok THEN Some("Could not open ROM file")
    ELSE IF file.read_err /\ m.pc + Len(file.bytes) <= MEMORY_SIZE
    THEN Some("Error reading ROM file")
    ELSE None

\* a tick that decrements without testing for zero
update_cpu_timers_wrapping(m) ==
    [m EXCEPT !.delay_timer = AsU8(@ - 1), !.sound_timer = AsU8(@ - 1)]

update_cpu_timers(m) ==
    LET d == IF m.delay_timer > 0 THEN m.delay_timer - 1 ELSE m.delay_timer
        s == IF m.sound_timer > 0 THEN m.sound_timer - 1 ELSE m.sound_timer
    IN [m EXCEPT !.delay_timer = d, !.sound_timer = s]

is_waiting_for_key(m) == m.wait_for_key # None
\* resolution that trusts the event and does not re-read the keypad
stop_waiting_for_key_unchecked(m, key) ==
    IF ~is_waiting_for_key(m) THEN m
    ELSE [m EXCEPT !.v[m.wait_for_key[1]] = AsU8(key), !.wait_for_key = None]

stop_waiting_for_key(m, key) ==
    IF ~is_waiting_for_key(m) THEN m
    ELSE LET x == m.wait_for_key[1]
         IN IF ~key_index_ok(key) THEN Panic(m)
            ELSE IF get_key_state(m.keypad, key)
                 THEN [m EXCEPT !.v[x] = AsU8(key), !.wait_for_key = None]
                 ELSE m

fetch_opcode(m) ==
    IF ~InBounds(m.pc, MEMORY_SIZE) \/ ~InBounds(m.pc + 1, MEMORY_SIZE)
    THEN Panic(m)
    ELSE [m EXCEPT !.opcode = m.memory[m.pc] * 256 + m.memory[m.pc + 1]]

instr_cls(m) ==
    [m EXCEPT !.display = clear(m.display), !.pc = @ + 2]

instr_jp_addr(m, addr) == [m EXCEPT !.pc = addr]
\* a return that resumes at the popped address itself
instr_ret_no_advance(m) ==
    IF m.sp = 0 THEN Panic(m)
    ELSE instr_jp_addr([m EXCEPT !.sp = m.sp - 1], m.stack[m.sp - 1])

instr_ret(m) ==
    IF m.sp = 0 /\ overflow_checks THEN Panic(m)
    ELSE LET sp1 == IF m.sp = 0 THEN USIZE_MAX ELSE m.sp - 1
             m1  == [m EXCEPT !.sp = sp1]
         IN IF ~InBounds(sp1, STACK_SIZE) THEN Panic(m1)
            ELSE [instr_jp_addr(m1, m1.stack[sp1]) EXCEPT !.pc = @ + 2]

\* a call that keeps a single return address, in slot 0
instr_call_addr_one_slot(m, addr) ==
    IF ~InBounds(m.sp, STACK_SIZE) THEN Panic(m)
    ELSE instr_jp_addr([m EXCEPT !.stack[0] = m.pc % 65536,
                                 !.sp = @ + 1], addr)

instr_call_addr(m, addr) ==
    IF ~InBounds(m.sp, STACK_SIZE) THEN Panic(m)
    ELSE instr_jp_addr([m EXCEPT !.stack[m.sp] = m.pc % 65536,
                                 !.sp = @ + 1], addr)

instr_se_vx_nn(m, x, nn) ==
    [m EXCEPT !.pc = @ + (IF m.v[x] = nn THEN 4 ELSE 2)]

instr_sne_vx_nn(m, x, nn) ==
    [m EXCEPT !.pc = @ + (IF m.v[x] # nn THEN 4 ELSE 2)]

instr_se_vx_vy(m, x, y) ==
    [m EXCEPT !.pc = @ + (IF m.v[x] = m.v[y] THEN 4 ELSE 2)]

instr_ld_vx_nn(m, x, nn) ==
    [m EXCEPT !.v[x] = nn, !.pc = @ + 2]

instr_add_vx_nn(m, x, nn) ==
    [m EXCEPT !.v[x] = AsU8(m.v[x] + nn), !.pc = @ + 2]

instr_ld_vx_vy(m, x, y) ==
    [m EXCEPT !.v[x] = m.v[y], !.pc = @ + 2]

instr_or_vx_vy(m, x, y) ==
    [m EXCEPT !.v[x] = BitOr(m.v[x], m.v[y]), !.pc = @ + 2]

instr_and_vx_vy(m, x, y) ==
    [m EXCEPT !.v[x] = BitAnd(m.v[x], m.v[y]), !.pc = @ + 2]

instr_xor_vx_vy(m, x, y) ==
    [m EXCEPT !.v[x] = BitXor(m.v[x], m.v[y]), !.pc = @ + 2]
\* an addition whose carry test is off by one
instr_add_vx_vy_carry_at_255(m, x, y) ==
    LET value == m.v[x] + m.v[y]
        m1 == [m EXCEPT !.v[x] = AsU8(value)]
        m2 == [m1 EXCEPT !.v[CARRY_FLAG] = IF value >= 255 THEN 1 ELSE 0]
    IN [m2 EXCEPT !.pc = @ + 2]

instr_add_vx_vy(m, x, y) ==
    LET value == m.v[x] + m.v[y]
        m1 == [m EXCEPT !.v[x] = AsU8(value)]
        m2 == [m1 EXCEPT !.v[CARRY_FLAG] = IF value > 255 THEN 1 ELSE 0]
    IN [m2 EXCEPT !.pc = @ + 2]

\* `a as i8 - b as i8`: an i8 subtraction.  A difference outside -128..127
\* panics when overflow checks are compiled in and wraps otherwise.
sub_i8(a, b) ==
    LET d == AsI8(a) - AsI8(b)
    IN [overflow |-> ~FitsI8(d), value |-> WrapI8(d)]

instr_sub_vx_vy(m, x, y) ==
    LET r == sub_i8(m.v[x], m.v[y])
        m1 == [m EXCEPT !.v[x] = AsU8(r.value)]
        m2 == [m1 EXCEPT !.v[CARRY_FLAG] = IF r.value < 0 THEN 0 ELSE 1]
    IN IF r.overflow /\ overflow_checks THEN Panic(m)
       ELSE [m2 EXCEPT !.pc = @ + 2]

instr_shr_vx_vy(m, x, y) ==
    LET m1 == [m EXCEPT !.v[CARRY_FLAG] = BitAnd(m.v[y], 128)]
        m2 == [m1 EXCEPT !.v[x] = m1.v[y] \div 2]
    IN [m2 EXCEPT !.pc = @ + 2]

instr_subn_vx_vy(m, x, y) ==
    LET r == sub_i8(m.v[y], m.v[x])
        m1 == [m EXCEPT !.v[x] = AsU8(r.value)]
        m2 == [m1 EXCEPT !.v[CARRY_FLAG] = IF r.value < 0 THEN 0 ELSE 1]
    IN IF r.overflow /\ overflow_checks THEN Panic(m)
       ELSE [m2 EXCEPT !.pc = @ + 2]

instr_shl_vx_vy(m, x, y) ==
    LET m1 == [m EXCEPT !.v[CARRY_FLAG] = BitAnd(m.v[y], 1)]
        m2 == [m1 EXCEPT !.v[x] = AsU8(m1.v[y] * 2)]
    IN [m2 EXCEPT !.pc = @ + 2]

instr_sne_vx_vy(m, x, y) ==
    [m EXCEPT !.pc = @ + (IF m.v[x] # m.v[y] THEN 4 ELSE 2)]

instr_ld_i_addr(m, addr) ==
    [m EXCEPT !.i = addr, !.pc = @ + 2]

instr_jp_v0_addr(m, addr) ==
    LET v0 == m.v[0]
    IN instr_jp_addr(m, addr + v0)

instr_rnd_vx_nn(m, x, nn, rnd) ==
    [m EXCEPT !.v[x] = BitAnd(rnd, nn), !.pc = @ + 2]

\* &self.memory[mem_start..mem_end] panics unless mem_end <= memory.len()
instr_drw_vx_vy_nn(m, x, y, nn) ==
    LET px == m.v[x]
        py == m.v[y]
        mem_start == m.i
        mem_end == m.i + nn
    IN IF mem_end > MEMORY_SIZE THEN Panic(m)
       ELSE LET sprite == [k \in 1..(mem_end - mem_start) |->
                              m.memory[mem_start + k - 1]]
                d == draw(m.display, px, py, sprite)
            IN [m EXCEPT !.display = d.display,
                         !.v[CARRY_FLAG] = IF d.collision THEN 1 ELSE 0,
                         !.pc = @ + 2]

instr_skp_vx(m, x) ==
    IF ~key_index_ok(m.v[x]) THEN Panic(m)
    ELSE [m EXCEPT !.pc = @ + (IF get_key_state(m.keypad, m.v[x]) THEN 4 ELSE 2)]

instr_sknp_vx(m, x) ==
    IF ~key_index_ok(m.v[x]) THEN Panic(m)
    ELSE [m EXCEPT !.pc = @ + (IF get_key_state(m.keypad, m.v[x]) THEN 2 ELSE 4)]

instr_ld_vx_dt(m, x) ==
    [m EXCEPT !.v[x] = m.delay_timer, !.pc = @ + 2]
\* the wait instruction as most interpreters write it: PC moves on at once
instr_ld_vx_k_advancing(m, x) ==
    [m EXCEPT !.wait_for_key = Some(x), !.pc = @ + 2]

instr_ld_vx_k(m, x) ==
    [m EXCEPT !.wait_for_key = Some(x)]

instr_ld_dt_vx(m, x) ==
    [m EXCEPT !.delay_timer = m.v[x], !.pc = @ + 2]

instr_ld_st_vx(m, x) ==
    [m EXCEPT !.sound_timer = m.v[x], !.pc = @ + 2]

instr_add_i_vx(m, x) ==
    [m EXCEPT !.i = m.i + m.v[x], !.pc = @ + 2]

\* a glyph address computed with four bytes per glyph
instr_ld_f_vx_four_rows(m, x) ==
    IF m.v[x] * 4 > 255 /\ overflow_checks THEN Panic(m)
    ELSE [m EXCEPT !.i = AsU8(m.v[x] * 4), !.pc = @ + 2]

\* self.v[x] * 5 is a u8 multiplication
instr_ld_f_vx(m, x) ==
    IF m.v[x] * 5 > 255 /\ overflow_checks THEN Panic(m)
    ELSE [m EXCEPT !.i = AsU8(m.v[x] * 5), !.pc = @ + 2]

\* memory[base], memory[base + 1], ... = bytes, in that order: the first
\* index past the end of memory panics after the earlier stores
store_bytes(m, base, bytes) ==
    LET n == Len(bytes)
        stored == [m EXCEPT !.memory =
                     [a \in 0..(MEMORY_SIZE - 1) |->
                         IF a >= base /\ a < base + n
                         THEN bytes[a - base + 1]
                         ELSE m.memory[a]]]
    IN IF base + n > MEMORY_SIZE THEN Panic(stored) ELSE stored

instr_ld_b_vx(m, x) ==
    LET vx == m.v[x]
        m1 == store_bytes(m, m.i, << vx \div 100, (vx \div 10) % 10, vx % 10 >>)
    IN IF m1.panicked THEN m1 ELSE [m1 EXCEPT !.pc = @ + 2]

instr_ld_i_vx(m, x) ==
    LET m1 == store_bytes(m, m.i, [k \in 1..(x + 1) |-> m.v[k - 1]])
    IN IF m1.panicked THEN m1
       ELSE [m1 EXCEPT !.i = m.i + x + 1, !.pc = @ + 2]

\* a load whose loop stops one register short: for i in 0..x
instr_ld_vx_i_exclusive(m, x) ==
    LET m1 == [m EXCEPT !.v = [r \in 0..(NUM_REGISTERS - 1) |->
                                  IF r < x /\ InBounds(m.i + r, MEMORY_SIZE)
                                  THEN m.memory[m.i + r]
                                  ELSE m.v[r]]]
    IN IF m.i + x >= MEMORY_SIZE THEN Panic(m1)
       ELSE [m1 EXCEPT !.i = m.i + x + 1, !.pc = @ + 2]

\* v[i] = memory[I + i] for i in 0..=x, in that order: the first index past
\* the end of memory panics after the earlier registers have been loaded
instr_ld_vx_i(m, x) ==
    LET m1 == [m EXCEPT !.v = [r \in 0..(NUM_REGISTERS - 1) |->
                                  IF r <= x /\ InBounds(m.i + r, MEMORY_SIZE)
                                  THEN m.memory[m.i + r]
                                  ELSE m.v[r]]]
    IN IF m.i + x >= MEMORY_SIZE THEN Panic(m1)
       ELSE [m1 EXCEPT !.i = m.i + x + 1, !.pc = @ + 2]
\* a default arm that steps over the word it does not recognise
instr_unknown_advancing(m) == [m EXCEPT !.pc = @ + 2]

\* the default arm of the match, `_ => {}`
instr_unknown(m) == m

\* the four nibbles of the opcode, most significant first
Nibbles(opcode) ==
    << BitAnd(opcode, 61440) \div 4096,
       BitAnd(opcode, 3840) \div 256,
       BitAnd(opcode, 240) \div 16,
       BitAnd(opcode, 15) >>

execute_opcode(m, rnd) ==
    LET op   == Nibbles(m.opcode)
        x    == op[2]
        y    == op[3]
        n    == op[4]
        addr == BitAnd(m.opcode, 4095)
        nn   == BitAnd(m.opcode, 255)
    IN CASE op[1] = 0 /\ op[2] = 0 /\ op[3] = 14 /\ op[4] = 0  -> instr_cls(m)
         [] op[1] = 0 /\ op[2] = 0 /\ op[3] = 14 /\ op[4] = 14 -> instr_ret(m)
         [] op[1] = 1  -> instr_jp_addr(m, addr)
         [] op[1] = 2  -> instr_call_addr(m, addr)
         [] op[1] = 3  -> instr_se_vx_nn(m, x, nn)
         [] op[1] = 4  -> instr_sne_vx_nn(m, x, nn)
         [] op[1] = 5 /\ op[4] = 0  -> instr_se_vx_vy(m, x, y)
         [] op[1] = 6  -> instr_ld_vx_nn(m, x, nn)
         [] op[1] = 7  -> instr_add_vx_nn(m, x, nn)
         [] op[1] = 8 /\ op[4] = 0  -> instr_ld_vx_vy(m, x, y)
         [] op[1] = 8 /\ op[4] = 1  -> instr_or_vx_vy(m, x, y)
         [] op[1] = 8 /\ op[4] = 2  -> instr_and_vx_vy(m, x, y)
         [] op[1] = 8 /\ op[4] = 3  -> instr_xor_vx_vy(m, x, y)
         [] op[1] = 8 /\ op[4] = 4  -> instr_add_vx_vy(m, x, y)
         [] op[1] = 8 /\ op[4] = 5  -> instr_sub_vx_vy(m, x, y)
         [] op[1] = 8 /\ op[4] = 6  -> instr_shr_vx_vy(m, x, y)
         [] op[1] = 8 /\ op[4] = 7  -> instr_subn_vx_vy(m, x, y)
         [] op[1] = 8 /\ op[4] = 14 -> instr_shl_vx_vy(m, x, y)
         [] op[1] = 9 /\ op[4] = 0  -> instr_sne_vx_vy(m, x, y)
         [] op[1] = 10 -> instr_ld_i_addr(m, addr)
         [] op[1] = 11 -> instr_jp_v0_addr(m, addr)
         [] op[1] = 12 -> instr_rnd_vx_nn(m, x, nn, rnd)
         [] op[1] = 13 -> instr_drw_vx_vy_nn(m, x, y, n)
         [] op[1] = 14 /\ op[3] = 9  /\ op[4] = 14 -> instr_skp_vx(m, x)
         [] op[1] = 14 /\ op[3] = 10 /\ op[4] = 1  -> instr_sknp_vx(m, x)
         [] op[1] = 15 /\ op[3] = 0 /\ op[4] = 7   -> instr_ld_vx_dt(m, x)
         [] op[1] = 15 /\ op[3] = 0 /\ op[4] = 10  -> instr_ld_vx_k(m, x)
         [] op[1] = 15 /\ op[3] = 1 /\ op[4] = 5   -> instr_ld_dt_vx(m, x)
         [] op[1] = 15 /\ op[3] = 1 /\ op[4] = 8   -> instr_ld_st_vx(m, x)
         [] op[1] = 15 /\ op[3] = 1 /\ op[4] = 14  -> instr_add_i_vx(m, x)
         [] op[1] = 15 /\ op[3] = 2 /\ op[4] = 9   -> instr_ld_f_vx(m, x)
         [] op[1] = 15 /\ op[3] = 3 /\ op[4] = 3   -> instr_ld_b_vx(m, x)
         [] op[1] = 15 /\ op[3] = 5 /\ op[4] = 5   -> instr_ld_i_vx(m, x)
         [] op[1] = 15 /\ op[3] = 6 /\ op[4] = 5   -> instr_ld_vx_i(m, x)
         [] OTHER -> instr_unknown(m)

cpu_cycle(m, rnd) ==
    LET f == fetch_opcode(m)
    IN IF f.panicked THEN f ELSE execute_opcode(f, rnd)

----------------------------------------------------------------------------
(* ROM images *)

\* the opcode word with nibbles n0 n1 n2 n3
Op(n0, n1, n2, n3) == n0 * 4096 + n1 * 256 + n2 * 16 + n3

\* the opcode word with leading nibble n0 and 12-bit address addr
OpAddr(n0, addr) == n0 * 4096 + addr

\* the opcode word with nibbles n0, x and immediate byte nn
OpNN(n0, x, nn) == n0 * 4096 + x * 256 + nn

\* The bytes of a ROM file that holds word w (big-endian) at address a for
\* every <<a, w>> in the set placed, and zero elsewhere; the file is loaded
\* at PROGRAM_START, so its k-th byte lands at PROGRAM_START + k - 1.
Image(placed) ==
    LET last == CHOOSE a \in {p[1] : p \in placed} :
                    \A b \in {p[1] : p \in placed} : b <= a
        ByteAt(a) ==
            IF \E p \in placed : p[1] = a
            THEN (CHOOSE p \in placed : p[1] = a)[2] \div 256
            ELSE IF \E p \in placed : p[1] + 1 = a
                 THEN (CHOOSE p \in placed : p[1] + 1 = a)[2] % 256
                 ELSE 0
    IN [k \in 1..(last + 2 - PROGRAM_START) |-> ByteAt(PROGRAM_START + k - 1)]

\* a program of consecutive words starting at PROGRAM_START
Program(words) ==
    Image({<<PROGRAM_START + 2 * (k - 1), words[k]>> : k \in 1..Len(words)})

\* the instruction word stored at address a
WordAt(m, a) == m.memory[a] * 256 + m.memory[a + 1]

----------------------------------------------------------------------------
(* Bounds *)

\* the driver presses and releases keys 0..MaxKey
MaxKey == 1

\* the timer values the ROMs load, 0..MaxTimer
MaxTimer == 2

\* sampled byte values lie within MaxEdge of 0, 128 and 256
MaxEdge == 1

Keys == 0..MaxKey

Bytes == {b \in 0..255 : \E c \in {0, 128, 256} :
                             b - c <= MaxEdge /\ c - b <= MaxEdge}

----------------------------------------------------------------------------
(* ROMs of the driver specification *)

\* V[x] = 42, both timers = t, then wait for a key into V[x]; the word after
\* the wait adds 1 to V[x], and the program ends in a jump to itself.
WaitRom(x, t) ==
    Program(<< OpNN(6, x, 42), OpNN(6, 1, t), Op(15, 1, 1, 5), Op(15, 1, 1, 8),
               Op(15, x, 0, 10), OpNN(7, x, 1),
               OpAddr(1, PROGRAM_START + 12) >>)

WaitRegs == {0, 2, 15}

WaitRoms == {WaitRom(x, t) : x \in WaitRegs, t \in 0..MaxTimer}

\* d nested CALLs, each to the word after it; then a jump to address A, a
\* CALL nnn at A, a RET at nnn, and a jump to itself at A + 2 (left out where
\* it would overlap the RET).
CallRom(d, A, nnn) ==
    Image({<<PROGRAM_START + 2 * j, OpAddr(2, PROGRAM_START + 2 * (j + 1))>> :
                j \in 0..(d - 1)}
          \cup (IF A = PROGRAM_START + 2 * d THEN {}
                ELSE {<<PROGRAM_START + 2 * d, OpAddr(1, A)>>})
          \cup {<<A, OpAddr(2, nnn)>>, <<nnn, Op(0, 0, 14, 14)>>}
          \cup (IF A + 2 \in (nnn - 1)..(nnn + 1) THEN {}
                ELSE {<<A + 2, OpAddr(1, A + 2)>>}))

CallSites(d) == {PROGRAM_START + 2 * d, 767, 4090}

CallTargets == {768, 4094, 2049}

CallRoms ==
    UNION {{CallRom(d, A, nnn) : A \in CallSites(d), nnn \in CallTargets} :
              d \in 0..(STACK_SIZE - 1)}

\* programs that drive the stack pointer to the ends of its range: a RET on
\* an empty stack, and a CALL to itself
StackRoms ==
    { Program(<< Op(0, 0, 14, 14) >>),
      Program(<< OpAddr(2, PROGRAM_START) >>) }

\* programs that drive PC and I to the end of memory
MemRoms ==
    { Program(<< OpAddr(1, 4095) >>),
      Program(<< OpAddr(1, 4094) >>),
      Program(<< OpAddr(11, 4095) >>),
      Program(<< OpNN(6, 0, 234), OpAddr(10, 4093), Op(15, 0, 3, 3),
                 OpAddr(10, 4094), Op(15, 0, 3, 3) >>),
      Program(<< OpNN(6, 0, 7), OpNN(6, 1, 9), OpAddr(10, 4094),
                 Op(15, 1, 5, 5), Op(15, 1, 5, 5) >>),
      Program(<< OpAddr(10, 4094), Op(15, 1, 6, 5), Op(15, 0, 6, 5) >>),
      Program(<< OpAddr(10, 4094), Op(13, 0, 0, 2), OpAddr(10, 4095),
                 Op(13, 0, 0, 2) >>),
      Program(<< OpNN(6, 0, 255), OpAddr(10, 4095), Op(15, 0, 1, 14),
                 Op(13, 0, 0, 0), Op(15, 0, 1, 14), Op(13, 0, 0, 0) >>),
      Program(<< OpNN(6, 0, 51), Op(15, 0, 2, 9), OpNN(6, 0, 52),
                 Op(15, 0, 2, 9), OpNN(12, 1, 3) >>) }

Roms == WaitRoms \cup CallRoms \cup StackRoms \cup MemRoms

----------------------------------------------------------------------------
(* The driver: construction, then the public operations in any order *)

\* main constructs the CPU; the build either has overflow checks compiled
\* in (debug) or not (release).
Init ==
    /\ overflow_checks \in BOOLEAN
    /\ cpu = CPU_new
    /\ main_pc = "load_rom"

\* main loads one ROM file before it enters its loop, and ignores the result
LoadRom(roms) ==
    /\ main_pc = "load_rom"
    /\ \E bytes \in roms : cpu' = load_rom(cpu, RomFile(bytes))
    /\ main_pc' = "loop"
    /\ UNCHANGED overflow_checks

\* the loop runs until a panic unwinds main
Running == main_pc = "loop" /\ ~cpu.panicked

\* the values random::<u8>() may return that the next instruction can observe
RandomBytes(m) ==
    IF InBounds(m.pc + 1, MEMORY_SIZE) /\ m.memory[m.pc] \div 16 = 12
    THEN 0..255 ELSE {0}

CpuCycle ==
    /\ Running
    /\ \E rnd \in RandomBytes(cpu) : cpu' = cpu_cycle(cpu, rnd)
    /\ UNCHANGED <<overflow_checks, main_pc>>

UpdateCpuTimers ==
    /\ Running
    /\ cpu' = update_cpu_timers(cpu)
    /\ UNCHANGED <<overflow_checks, main_pc>>

StopWaitingForKey(key) ==
    /\ Running
    /\ cpu' = stop_waiting_for_key(cpu, key)
    /\ UNCHANGED <<overflow_checks, main_pc>>

SetKeyState(index, state) ==
    /\ Running
    /\ cpu' = [cpu EXCEPT !.keypad = set_key_state(cpu.keypad, index, state)]
    /\ UNCHANGED <<overflow_checks, main_pc>>

Next ==
    \/ LoadRom(Roms)
    \/ CpuCycle
    \/ UpdateCpuTimers
    \/ \E key \in Keys : StopWaitingForKey(key)
    \/ \E index \in Keys, state \in BOOLEAN : SetKeyState(index, state)

Spec == Init /\ [][Next]_vars

\* the same driver on the programs that address the end of memory
NextMem ==
    \/ LoadRom(MemRoms)
    \/ CpuCycle
    \/ UpdateCpuTimers
    \/ \E key \in Keys : StopWaitingForKey(key)
    \/ \E index \in Keys, state \in BOOLEAN : SetKeyState(index, state)

SpecMem == Init /\ [][NextMem]_vars

----------------------------------------------------------------------------
(* Decoding used by the properties *)

IsLdVxK(word) ==
    LET op == Nibbles(word) IN op[1] = 15 /\ op[3] = 0 /\ op[4] = 10

IsCall(word) == Nibbles(word)[1] = 2

IsRet(word) == word = Op(0, 0, 14, 14)

\* the word the next cpu_cycle() fetches, when PC is inside memory
CanFetch(m) == InBounds(m.pc, MEMORY_SIZE) /\ InBounds(m.pc + 1, MEMORY_SIZE)

\* the last cycle executed Fx0A and the wait it set has since been cleared:
\* only stop_waiting_for_key clears a wait, and no cycle has run since.
JustResolved(m) ==
    ~m.panicked /\ ~is_waiting_for_key(m) /\ IsLdVxK(m.opcode)

----------------------------------------------------------------------------
(* C1: once Fx0A at address A has set the wait and stop_waiting_for_key(k)  *)
(* is called while key k is pressed, Vx = k and the wait is cleared, and    *)
(* the next cpu_cycle() executes the instruction at A + 2.                  *)
C1_ResumeAfterKey ==
    [][ /\ \A k \in Keys :
              (is_waiting_for_key(cpu) /\ get_key_state(cpu.keypad, k)
                  /\ StopWaitingForKey(k))
              => (cpu'.v[cpu.wait_for_key[1]] = k /\ ~is_waiting_for_key(cpu'))
        /\ (JustResolved(cpu) /\ CpuCycle)
              => (cpu'.opcode = WordAt(cpu, cpu.pc + 2) /\ cpu'.pc # cpu.pc)
      ]_vars

(* C2: from the cycle that executes Fx0A until stop_waiting_for_key is      *)
(* called with a key that is pressed, every step of the driver (cycles,     *)
(* timer ticks, keypad changes, unsuccessful resolutions) leaves PC and     *)
(* the destination register unchanged and the CPU waiting.                  *)
C2_WaitHolds ==
    [][ /\ (~is_waiting_for_key(cpu) /\ is_waiting_for_key(cpu'))
              => (cpu'.pc = cpu.pc /\ cpu'.v = cpu.v)
        /\ is_waiting_for_key(cpu)
              => \/ \E k \in 0..(NUM_KEYS - 1) :
                       /\ get_key_state(cpu.keypad, k)
                       /\ cpu' = stop_waiting_for_key(cpu, k)
                 \/ /\ cpu'.wait_for_key = cpu.wait_for_key
                    /\ cpu'.pc = cpu.pc
                    /\ cpu'.v[cpu.wait_for_key[1]] = cpu.v[cpu.wait_for_key[1]]
                    /\ ~cpu'.panicked
      ]_vars

\* the CPU has cycled on Fx0A, a key has gone down and a timer has ticked,
\* and it is still waiting
C2_Witness ==
    /\ is_waiting_for_key(cpu) /\ IsLdVxK(cpu.opcode)
    /\ cpu.keypad.keys[1]
    /\ cpu.v[1] = 2 /\ cpu.delay_timer = 1 /\ cpu.sound_timer = 1

(* C3: stop_waiting_for_key(k) writes k into the pending register and       *)
(* clears the wait exactly when the CPU is waiting and key k is pressed at  *)
(* the call; otherwise it changes nothing.                                  *)
C3_StopWaiting ==
    ~cpu.panicked =>
        \A k \in 0..(NUM_KEYS - 1) :
            LET r == stop_waiting_for_key(cpu, k)
            IN IF is_waiting_for_key(cpu) /\ cpu.keypad.keys[k]
               THEN r = [cpu EXCEPT !.v[cpu.wait_for_key[1]] = k,
                                    !.wait_for_key = None]
               ELSE r = cpu

\* a wait into VF has been resolved by key 1 while key 0 was up
C3_Witness ==
    /\ JustResolved(cpu)
    /\ Nibbles(cpu.opcode)[2] = 15 /\ cpu.v[15] = 1
    /\ cpu.keypad.keys[1] /\ ~cpu.keypad.keys[0]

(* C8: a CALL at address A executed with the stack pointer in 0..15,        *)
(* followed at once by the RET at its target, leaves PC = A + 2 and the     *)
(* stack pointer at its value before the CALL.                              *)
C8_CallReturn ==
    (/\ ~cpu.panicked /\ CanFetch(cpu) /\ IsCall(WordAt(cpu, cpu.pc))
     /\ cpu.sp \in 0..(STACK_SIZE - 1)
     /\ LET nnn == BitAnd(WordAt(cpu, cpu.pc), 4095)
        IN InBounds(nnn + 1, MEMORY_SIZE) /\ IsRet(WordAt(cpu, nnn)))
    => LET called   == cpu_cycle(cpu, 0)
           returned == cpu_cycle(called, 0)
       IN /\ ~returned.panicked
          /\ called.pc = BitAnd(WordAt(cpu, cpu.pc), 4095)
          /\ returned.pc = cpu.pc + 2
          /\ returned.sp = cpu.sp

\* the RET of a CALL made at 4090 with 15 frames on the stack has returned
C8_Witness ==
    /\ ~cpu.panicked /\ IsRet(cpu.opcode)
    /\ cpu.pc = 4092 /\ cpu.sp = STACK_SIZE - 1

(* C9: the stack pointer stays within 0..16, and neither a RET on an empty  *)
(* stack nor a CALL on a full one aborts the machine.                       *)
C9_StackRecoverable ==
    [][ CpuCycle =>
          /\ cpu'.sp \in 0..STACK_SIZE
          /\ (CanFetch(cpu) /\ (IsCall(WordAt(cpu, cpu.pc))
                                  \/ IsRet(WordAt(cpu, cpu.pc))))
                => ~cpu'.panicked
      ]_vars

\* the addresses of memory that the next cpu_cycle() indexes
MemAccesses(m) ==
    {m.pc, m.pc + 1} \cup
    (IF ~CanFetch(m) THEN {}
     ELSE LET op == Nibbles(WordAt(m, m.pc))
          IN IF op[1] = 13 THEN m.i..(m.i + op[4] - 1)
             ELSE IF op[1] = 15 /\ op[3] = 3 /\ op[4] = 3 THEN m.i..(m.i + 2)
             ELSE IF op[1] = 15 /\ op[3] \in {5, 6} /\ op[4] = 5
                  THEN m.i..(m.i + op[2])
             ELSE {})

(* C10: every memory access of cpu_cycle() is at an address in [0, 4096),   *)
(* and cpu_cycle() always completes, leaving the machine able to cycle.     *)
C10_NoFatalAccess ==
    [][ CpuCycle =>
          /\ MemAccesses(cpu) \subseteq 0..(MEMORY_SIZE - 1)
          /\ ~cpu'.panicked
      ]_vars

----------------------------------------------------------------------------
(* Register arithmetic: V[x] = a and V[y] = b are loaded, then one 8xy_    *)
(* instruction runs.                                                       *)

AluRom(x, a, y, b, n) ==
    Program(<< OpNN(6, x, a), OpNN(6, y, b), Op(8, x, y, n) >>)

AluDest == {0}

AluSource == {0, 1, CARRY_FLAG}

AluOps == {4, 5, 6, 7, 14}

AluRoms ==
    {AluRom(x, a, y, b, n) :
        x \in AluDest, y \in AluSource, a \in Bytes, b \in Bytes, n \in AluOps}

NextAlu ==
    \/ LoadRom(AluRoms)
    \/ CpuCycle

SpecAlu == Init /\ [][NextAlu]_vars

\* the next cpu_cycle() executes 8xyn with x other than the flag register
AtAlu(m, n) ==
    /\ ~m.panicked /\ CanFetch(m)
    /\ LET op == Nibbles(WordAt(m, m.pc))
       IN op[1] = 8 /\ op[4] = n /\ op[2] # CARRY_FLAG

NextX(m) == Nibbles(WordAt(m, m.pc))[2]

NextY(m) == Nibbles(WordAt(m, m.pc))[3]

(* C4: with Vx = a and Vy = b (x not the flag register), 8xy5 leaves       *)
(* Vx = (a - b) mod 256 and VF = 0 iff a - b is negative, else 1; 8xy7     *)
(* leaves Vx = (b - a) mod 256 and VF = 0 iff b - a is negative, else 1;   *)
(* both advance PC by 2.                                                   *)
C4_SubBorrow ==
    [][ LET a == cpu.v[NextX(cpu)]
            b == cpu.v[NextY(cpu)]
        IN /\ (AtAlu(cpu, 5) /\ CpuCycle)
                => /\ ~cpu'.panicked
                   /\ cpu'.v[NextX(cpu)] = (a - b) % 256
                   /\ cpu'.v[CARRY_FLAG] = (IF a - b < 0 THEN 0 ELSE 1)
                   /\ cpu'.pc = cpu.pc + 2
           /\ (AtAlu(cpu, 7) /\ CpuCycle)
                => /\ ~cpu'.panicked
                   /\ cpu'.v[NextX(cpu)] = (b - a) % 256
                   /\ cpu'.v[CARRY_FLAG] = (IF b - a < 0 THEN 0 ELSE 1)
                   /\ cpu'.pc = cpu.pc + 2
      ]_vars

(* C5: with Vx = a and Vy = b (x not the flag register), 8xy4 leaves       *)
(* Vx = (a + b) mod 256 and VF = 1 iff a + b > 255, else 0, and advances   *)
(* PC by 2.                                                                *)
C5_AddCarry ==
    [][ LET a == cpu.v[NextX(cpu)]
            b == cpu.v[NextY(cpu)]
        IN (AtAlu(cpu, 4) /\ CpuCycle)
              => /\ ~cpu'.panicked
                 /\ cpu'.v[NextX(cpu)] = (a + b) % 256
                 /\ cpu'.v[CARRY_FLAG] = (IF a + b > 255 THEN 1 ELSE 0)
                 /\ cpu'.pc = cpu.pc + 2
      ]_vars

\* 8014 has run on V0 = 255, V1 = 1: the sum wrapped to 0 with the carry set
C5_Witness ==
    /\ ~cpu.panicked /\ cpu.opcode = Op(8, 0, 1, 4) /\ cpu.pc = PROGRAM_START + 6
    /\ cpu.v[0] = 0 /\ cpu.v[1] = 1 /\ cpu.v[CARRY_FLAG] = 1

(* C6: with Vy = S, for every source register y and every destination x    *)
(* other than the flag register, 8xy6 leaves Vx = S >> 1 and               *)
(* VF = S AND 0x80; 8xyE leaves Vx = (S << 1) mod 256 and VF = S AND 0x01. *)
C6_Shifts ==
    [][ LET S == cpu.v[NextY(cpu)]
        IN /\ (AtAlu(cpu, 6) /\ CpuCycle)
                => /\ cpu'.v[NextX(cpu)] = S \div 2
                   /\ cpu'.v[CARRY_FLAG] = BitAnd(S, 128)
           /\ (AtAlu(cpu, 14) /\ CpuCycle)
                => /\ cpu'.v[NextX(cpu)] = (S * 2) % 256
                   /\ cpu'.v[CARRY_FLAG] = BitAnd(S, 1)
      ]_vars

----------------------------------------------------------------------------
(* Skips: V[x] = a and V[y] = b are loaded, then one comparison runs,      *)
(* while the driver presses and releases keys.                             *)

\* register values around the key indices
SkipValues == Keys \cup {NUM_KEYS, 255}

SkipWords(x, y) ==
    {OpNN(3, x, nn) : nn \in Keys} \cup {OpNN(4, x, nn) : nn \in Keys}
    \cup {Op(5, x, y, 0), Op(9, x, y, 0), Op(14, x, 9, 14), Op(14, x, 10, 1)}

SkipRoms ==
    UNION {{Program(<< OpNN(6, 0, a), OpNN(6, y, b), w >>) :
                a \in SkipValues, b \in {0, 255}, w \in SkipWords(0, y)} :
              y \in {0, 1}}

NextSkip ==
    \/ LoadRom(SkipRoms)
    \/ CpuCycle
    \/ \E index \in Keys, state \in BOOLEAN : SetKeyState(index, state)

SpecSkip == Init /\ [][NextSkip]_vars

IsSkip(word) ==
    LET op == Nibbles(word)
    IN \/ op[1] \in {3, 4}
       \/ op[1] \in {5, 9} /\ op[4] = 0
       \/ op[1] = 14 /\ op[3] = 9 /\ op[4] = 14
       \/ op[1] = 14 /\ op[3] = 10 /\ op[4] = 1

\* the condition of a comparison opcode, as the instruction set defines it
SkipCondition(m, word) ==
    LET op == Nibbles(word)
        vx == m.v[op[2]]
        vy == m.v[op[3]]
        nn == word % 256
        pressed == vx \in 0..(NUM_KEYS - 1) /\ m.keypad.keys[vx]
    IN CASE op[1] = 3  -> vx = nn
         [] op[1] = 4  -> vx # nn
         [] op[1] = 5  -> vx = vy
         [] op[1] = 9  -> vx # vy
         [] op[1] = 14 /\ op[3] = 9 -> pressed
         [] OTHER -> ~pressed

(* C7: every comparison opcode (3xnn, 4xnn, 5xy0, 9xy0, Ex9E, ExA1)        *)
(* advances PC by exactly 4 when its condition holds and by exactly 2      *)
(* otherwise and changes nothing else, for all register values and key     *)
(* states.                                                                 *)
C7_Skips ==
    [][ (~cpu.panicked /\ CanFetch(cpu) /\ IsSkip(WordAt(cpu, cpu.pc)) /\ CpuCycle)
          => cpu' = [cpu EXCEPT
                        !.opcode = WordAt(cpu, cpu.pc),
                        !.pc = @ + (IF SkipCondition(cpu, WordAt(cpu, cpu.pc))
                                    THEN 4 ELSE 2)]
      ]_vars

----------------------------------------------------------------------------
(* Unrecognised words: the machine is given registers, I, a timer and a    *)
(* drawn glyph, and then reaches a word that no dispatch pattern matches.  *)

\* the word matches one of the 36 patterns of the dispatch
MatchesPattern(word) ==
    LET op == Nibbles(word)
    IN \/ word \in {Op(0, 0, 14, 0), Op(0, 0, 14, 14)}
       \/ op[1] \in {1, 2, 3, 4, 6, 7, 10, 11, 12, 13}
       \/ op[1] \in {5, 9} /\ op[4] = 0
       \/ op[1] = 8 /\ op[4] \in {0, 1, 2, 3, 4, 5, 6, 7, 14}
       \/ op[1] = 14 /\ <<op[3], op[4]>> \in {<<9, 14>>, <<10, 1>>}
       \/ op[1] = 15 /\ <<op[3], op[4]>> \in
              {<<0, 7>>, <<0, 10>>, <<1, 5>>, <<1, 8>>, <<1, 14>>,
               <<2, 9>>, <<3, 3>>, <<5, 5>>, <<6, 5>>}

UnknownWords ==
    { 0, Op(0, 0, 14, 1), Op(0, 1, 2, 3), Op(5, 0, 1, 1), Op(8, 0, 1, 8),
      Op(8, 0, 1, 15), Op(9, 0, 1, 1), Op(14, 0, 0, 0), Op(14, 0, 10, 2),
      Op(15, 0, 0, 0), Op(15, 0, 5, 6), Op(15, 15, 15, 15) }

UnknownRom(w, t) ==
    Program(<< OpNN(6, 0, 5), OpNN(6, 1, t), Op(15, 1, 1, 5), Op(15, 1, 1, 8),
               OpAddr(10, 10), Op(13, 0, 0, 5), OpAddr(2, PROGRAM_START + 14),
               w >>)

UnknownRoms == {UnknownRom(w, t) : w \in UnknownWords, t \in 1..MaxTimer}

NextUnknown ==
    \/ LoadRom(UnknownRoms)
    \/ CpuCycle
    \/ UpdateCpuTimers

SpecUnknown == Init /\ [][NextUnknown]_vars

(* C11: for every word that matches no dispatch pattern, cpu_cycle() is a  *)
(* no-op that does not advance PC: registers, I, PC, memory, stack, stack  *)
(* pointer, timers, framebuffer and wait state are unchanged, so the next  *)
(* cycle fetches the same word again.                                      *)
C11_UnknownIsNoOp ==
    [][ (Running /\ CanFetch(cpu) /\ ~MatchesPattern(WordAt(cpu, cpu.pc))
            /\ CpuCycle)
          => /\ cpu' = [cpu EXCEPT !.opcode = WordAt(cpu, cpu.pc)]
             /\ WordAt(cpu', cpu'.pc) = WordAt(cpu, cpu.pc)
      ]_vars

\* the unrecognised word 8018 has been fetched inside a subroutine, with a
\* glyph on the screen and the delay timer running
C11_Witness ==
    /\ ~cpu.panicked /\ cpu.opcode = Op(8, 0, 1, 8)
    /\ cpu.pc = PROGRAM_START + 14 /\ cpu.sp = 1 /\ cpu.i = 10
    /\ cpu.v[0] = 5 /\ cpu.delay_timer = 1
    /\ cpu.display.memory[5][5] = 1

----------------------------------------------------------------------------
(* Timers: both timers are loaded, other instructions run, and the machine *)
(* ends in a key wait, with ticks arriving at any point.                   *)

TimerRom(t, u) ==
    Program(<< OpNN(6, 1, t), Op(15, 1, 1, 5), OpNN(6, 2, u), Op(15, 2, 1, 8),
               OpNN(7, 3, 1), Op(15, 4, 0, 7), Op(15, 0, 0, 10) >>)

TimerRoms == {TimerRom(t, u) : t \in 0..MaxTimer, u \in 0..MaxTimer}

NextTimer ==
    \/ LoadRom(TimerRoms)
    \/ CpuCycle
    \/ UpdateCpuTimers
    \/ \E key \in Keys : StopWaitingForKey(key)
    \/ \E index \in Keys, state \in BOOLEAN : SetKeyState(index, state)

SpecTimer == Init /\ [][NextTimer]_vars

\* n calls of update_cpu_timers in a row
RECURSIVE Ticks(_, _)
Ticks(m, n) == IF n = 0 THEN m ELSE Ticks(update_cpu_timers(m), n - 1)

Max(a, b) == IF a >= b THEN a ELSE b

\* the number of ticks counted: one more than any timer value in play
TickCounts == 0..(MaxTimer + 1)

IsTimerLoad(word) ==
    Nibbles(word)[1] = 15 /\ <<Nibbles(word)[3], Nibbles(word)[4]>>
                                 \in {<<1, 5>>, <<1, 8>>}

(* C12: N calls of update_cpu_timers() leave each timer at max(0, t - N);  *)
(* each call takes one from a nonzero timer, leaves a zero timer at 0,     *)
(* never wraps, and changes nothing but the two timers; a cpu_cycle() that *)
(* is not Fx15/Fx18 and a resolved or pending key wait leave both timers   *)
(* as they are.                                                            *)
C12_TimersCountDown ==
    /\ [](\A n \in TickCounts :
             Ticks(cpu, n) =
                 [cpu EXCEPT !.delay_timer = Max(0, cpu.delay_timer - n),
                             !.sound_timer = Max(0, cpu.sound_timer - n)])
    /\ [][UpdateCpuTimers =>
             cpu' = [cpu EXCEPT !.delay_timer = Max(0, @ - 1),
                                !.sound_timer = Max(0, @ - 1)]]_vars
    /\ [][( \/ CpuCycle /\ CanFetch(cpu) /\ ~IsTimerLoad(WordAt(cpu, cpu.pc))
            \/ \E key \in Keys : StopWaitingForKey(key) )
          => /\ cpu'.delay_timer = cpu.delay_timer
             /\ cpu'.sound_timer = cpu.sound_timer]_vars

\* during the key wait one timer has run out and the other has not
C12_Witness ==
    /\ is_waiting_for_key(cpu) /\ cpu.v[1] = MaxTimer /\ cpu.v[2] = 1
    /\ cpu.delay_timer = 1 /\ cpu.sound_timer = 0 /\ cpu.v[4] = MaxTimer

----------------------------------------------------------------------------
(* Drawing: a sprite is drawn, drawn again, and drawn once more after a    *)
(* clear, from the font, from the ROM's own data and from the end of       *)
(* memory; then a timer is started and the machine waits for a key.        *)

\* a sprite has at most as many rows as the n nibble of Dxyn can name
MaxRows == 15

DrawData == PROGRAM_START + 22
DrawXs == {0, 60, 255}
DrawYs == {0, 31}
\* the register holding x, the sprite address and the row count
DrawCases ==
    { <<0, DrawData, 1>>, <<0, 0, MaxRows>>, <<0, 0, 0>>,
      <<CARRY_FLAG, 0, 5>>, <<CARRY_FLAG, DrawData, 2>>,
      <<0, MEMORY_SIZE - 6, 6>>, <<0, MEMORY_SIZE - 6, MaxRows>> }

DrawRom(r, x, y, src, n) ==
    Program(<< OpNN(6, r, x), OpNN(6, 1, y), OpAddr(10, src),
               Op(13, r, 1, n), Op(13, r, 1, n), Op(0, 0, 14, 0),
               Op(13, r, 1, n), Op(13, 1, r, n),
               OpNN(6, 2, 1), Op(15, 2, 1, 5), Op(15, 3, 0, 10),
               255 * 256 + 129, 240 * 256 + 15, 1 * 256 + 128 >>)

DrawRoms ==
    {DrawRom(c[1], x, y, c[2], c[3]) : c \in DrawCases, x \in DrawXs,
                                        y \in DrawYs}

NextDraw ==
    \/ LoadRom(DrawRoms)
    \/ CpuCycle
    \/ UpdateCpuTimers
    \/ StopWaitingForKey(0)
    \/ \E state \in BOOLEAN : SetKeyState(0, state)

SpecDraw == Init /\ [][NextDraw]_vars

\* the sprites handed to draw: slices of a reachable memory
Sprite(m, src, n) == [k \in 1..n |-> m.memory[src + k - 1]]

\* origins, sprite addresses and row counts at which draw is examined
DrawInputs ==
    { <<0, 0, 0, MaxRows>>, <<60, 31, 0, MaxRows>>, <<255, 31, DrawData, 2>>,
      <<60, 0, DrawData, 1>>, <<60, 0, 0, 5>>, <<0, 31, 0, 0>> }

Cells == (0..(DISPLAY_HEIGHT - 1)) \X (0..(DISPLAY_WIDTH - 1))

(* C13: drawing the same sprite (0 to 15 rows) twice at the same place     *)
(* restores every cell, and the second call reports a collision exactly    *)
(* when the first call turned some cell from unlit to lit.                 *)
C13_DrawTwiceRestores ==
    \A in \in DrawInputs :
        LET x == in[1]
            y == in[2]
            sprite == Sprite(cpu, in[3], in[4])
            first == draw(cpu.display, x, y, sprite)
            second == draw(first.display, x, y, sprite)
        IN /\ second.display = cpu.display
           /\ second.collision <=>
                  \E c \in Cells : /\ cpu.display.memory[c[1]][c[2]] = 0
                                   /\ first.display.memory[c[1]][c[2]] = 1

\* a glyph has been drawn over itself and the screen is blank again
C13_Witness ==
    /\ cpu.opcode = Op(13, 0, 1, MaxRows) /\ cpu.pc = PROGRAM_START + 10
    /\ cpu.i = 0 /\ cpu.v[0] = 60 /\ cpu.v[1] = 31
    /\ cpu.v[CARRY_FLAG] = 1 /\ cpu.display = Display_new

\* bit b, most significant first, of row r of the sprite
SpriteBit(sprite, r, b) == (sprite[r + 1] \div (2 ^ (7 - b))) % 2

\* the cells a sprite covers with a 1 bit when drawn at (x, y)
Covered(x, y, sprite) ==
    { <<(y + r) % DISPLAY_HEIGHT, (x + b) % DISPLAY_WIDTH>> :
          <<r, b>> \in { rb \in (0..(Len(sprite) - 1)) \X (0..7) :
                            SpriteBit(sprite, rb[1], rb[2]) = 1 } }

WrapExample == draw(Display_new, 60, 0, <<255>>)

(* C14: draw flips exactly the cells at row (y + r) mod 32, column         *)
(* (x + b) mod 64 for which bit b (most significant first) of sprite row r *)
(* is 1, leaves every other cell unchanged, and returns true iff one of    *)
(* the flipped cells was lit before; an all-set 8x1 sprite at x = 60,      *)
(* y = 0 on a clear screen lights columns 60..63 and 0..3 of row 0 only.   *)
C14_DrawFlipsCovered ==
    /\ \A in \in DrawInputs :
          LET x == in[1]
              y == in[2]
              sprite == Sprite(cpu, in[3], in[4])
              d == draw(cpu.display, x, y, sprite)
              covered == Covered(x, y, sprite)
          IN /\ \A c \in Cells :
                    d.display.memory[c[1]][c[2]] =
                        IF c \in covered
                        THEN 1 - cpu.display.memory[c[1]][c[2]]
                        ELSE cpu.display.memory[c[1]][c[2]]
             /\ d.collision <=>
                    \E c \in covered : cpu.display.memory[c[1]][c[2]] = 1
    /\ \A c \in Cells :
          WrapExample.display.memory[c[1]][c[2]] =
              IF c[1] = 0 /\ c[2] \in {60, 61, 62, 63, 0, 1, 2, 3} THEN 1 ELSE 0
    /\ ~WrapExample.collision

\* the row FF of the ROM's data has been drawn at x = 60, y = 0 on the
\* cleared screen
C14_Witness ==
    /\ cpu.opcode = Op(13, 0, 1, 1) /\ cpu.pc = PROGRAM_START + 14
    /\ cpu.i = DrawData /\ cpu.v[0] = 60 /\ cpu.v[1] = 0
    /\ cpu.display = WrapExample.display

----------------------------------------------------------------------------
(* Decimal digits: Fx33 with I inside the ROM, below it, and at the last   *)
(* three and the last two bytes of memory.                                 *)

BcdValues == Bytes \cup {9, 10, 99, 100, 199, 200, 234}
BcdAddresses == {96, PROGRAM_START + 4, MEMORY_SIZE - 3, MEMORY_SIZE - 2}
BcdRegs == {0, CARRY_FLAG}

BcdRom(x, v, addr) ==
    Program(<< OpNN(6, x, v), OpAddr(10, addr), Op(15, x, 3, 3),
               OpAddr(1, PROGRAM_START + 6) >>)

BcdRoms == {BcdRom(x, v, addr) : x \in BcdRegs, v \in BcdValues,
                                 addr \in BcdAddresses}

NextBcd ==
    \/ LoadRom(BcdRoms)
    \/ CpuCycle

SpecBcd == Init /\ [][NextBcd]_vars

IsBcd(word) == Nibbles(word)[1] = 15 /\ Nibbles(word)[3] = 3 /\ Nibbles(word)[4] = 3

(* C15: Fx33 stores the hundreds, tens and ones digits of Vx at memory[I],  *)
(* memory[I+1], memory[I+2] for every byte value of Vx (each digit in 0..9, *)
(* 100*memory[I] + 10*memory[I+1] + memory[I+2] = Vx), leaves I and every   *)
(* other memory byte unchanged, and advances PC by 2.                       *)
C15_BcdStore ==
    [][ (Running /\ CanFetch(cpu) /\ IsBcd(WordAt(cpu, cpu.pc)) /\ CpuCycle)
          => LET vx == cpu.v[Nibbles(WordAt(cpu, cpu.pc))[2]]
                 digits == {cpu.i, cpu.i + 1, cpu.i + 2}
             IN /\ ~cpu'.panicked
                /\ cpu'.pc = cpu.pc + 2
                /\ cpu'.i = cpu.i
                /\ \A a \in digits : cpu'.memory[a] \in 0..9
                /\ 100 * cpu'.memory[cpu.i] + 10 * cpu'.memory[cpu.i + 1]
                       + cpu'.memory[cpu.i + 2] = vx
                /\ \A a \in (0..(MEMORY_SIZE - 1)) \ digits :
                       cpu'.memory[a] = cpu.memory[a]
                /\ cpu'.v = cpu.v
      ]_vars

----------------------------------------------------------------------------
(* Register block store and load: all sixteen registers are given values,  *)
(* V0..Vx are stored at I, every register is changed, I is set back, and   *)
(* V0..Vx are loaded again.                                                *)

Regs == 0..(NUM_REGISTERS - 1)
BlockValue(r) == 16 * r + 7
BlockChanged(r) == 255 - BlockValue(r)

\* an address below the top of memory, and the last one at which V0..Vx fit
BlockAddresses(x) == {768, MEMORY_SIZE - 1 - x}

BlockRom(x, addr) ==
    Program([r \in 1..NUM_REGISTERS |-> OpNN(6, r - 1, BlockValue(r - 1))]
            \o << OpAddr(10, addr), Op(15, x, 5, 5) >>
            \o [r \in 1..NUM_REGISTERS |-> OpNN(6, r - 1, BlockChanged(r - 1))]
            \o << OpAddr(10, addr), Op(15, x, 6, 5),
                  OpAddr(1, PROGRAM_START + 72) >>)

BlockRoms == UNION {{BlockRom(x, addr) : addr \in BlockAddresses(x)} : x \in Regs}

NextBlock ==
    \/ LoadRom(BlockRoms)
    \/ CpuCycle

SpecBlock == Init /\ [][NextBlock]_vars

IsStore(word) == Nibbles(word)[1] = 15 /\ Nibbles(word)[3] = 5 /\ Nibbles(word)[4] = 5
IsLoad(word) == Nibbles(word)[1] = 15 /\ Nibbles(word)[3] = 6 /\ Nibbles(word)[4] = 5

\* store V0..Vx, give every register another value, set I back, load V0..Vx
RoundTrip(m, x) ==
    LET stored == instr_ld_i_vx(m, x)
        changed == [stored EXCEPT !.v = [r \in Regs |-> 255 - m.v[r]],
                                  !.i = m.i]
    IN [changed |-> changed, loaded |-> instr_ld_vx_i(changed, x)]

(* C16: for every x in 0..15 and in-range I, Fx55 copies V0..Vx to         *)
(* memory[I..I+x] and Fx65 copies memory[I..I+x] to V0..Vx, each then      *)
(* setting I to I + x + 1; storing, changing the registers, resetting I    *)
(* and loading reproduces V0..Vx and leaves the registers above x alone.   *)
C16_BlockStoreLoad ==
    /\ [][ (Running /\ CanFetch(cpu) /\ IsStore(WordAt(cpu, cpu.pc)) /\ CpuCycle
              /\ cpu.i + Nibbles(WordAt(cpu, cpu.pc))[2] < MEMORY_SIZE)
            => LET x == Nibbles(WordAt(cpu, cpu.pc))[2]
               IN cpu' = [cpu EXCEPT
                            !.opcode = WordAt(cpu, cpu.pc),
                            !.memory = [a \in 0..(MEMORY_SIZE - 1) |->
                                           IF a \in cpu.i..(cpu.i + x)
                                           THEN cpu.v[a - cpu.i]
                                           ELSE cpu.memory[a]],
                            !.i = cpu.i + x + 1,
                            !.pc = cpu.pc + 2]
        ]_vars
    /\ [][ (Running /\ CanFetch(cpu) /\ IsLoad(WordAt(cpu, cpu.pc)) /\ CpuCycle
              /\ cpu.i + Nibbles(WordAt(cpu, cpu.pc))[2] < MEMORY_SIZE)
            => LET x == Nibbles(WordAt(cpu, cpu.pc))[2]
               IN cpu' = [cpu EXCEPT
                            !.opcode = WordAt(cpu, cpu.pc),
                            !.v = [r \in Regs |->
                                      IF r <= x THEN cpu.memory[cpu.i + r]
                                      ELSE cpu.v[r]],
                            !.i = cpu.i + x + 1,
                            !.pc = cpu.pc + 2]
        ]_vars
    /\ [](\A x \in Regs :
             (InBounds(cpu.i, MEMORY_SIZE) /\ cpu.i + x < MEMORY_SIZE)
                 => LET rt == RoundTrip(cpu, x)
                    IN /\ \A r \in 0..x : rt.loaded.v[r] = cpu.v[r]
                       /\ \A r \in (x + 1)..(NUM_REGISTERS - 1) :
                              rt.loaded.v[r] = rt.changed.v[r]
                       /\ rt.loaded.i = cpu.i + x + 1)

\* F765 has loaded V0..V7 back from the last eight bytes of memory, and
\* V8..VF keep the values given to them after the store
C16_Witness ==
    /\ ~cpu.panicked /\ cpu.opcode = Op(15, 7, 6, 5)
    /\ cpu.i = MEMORY_SIZE /\ cpu.pc = PROGRAM_START + 72
    /\ \A r \in 0..7 : cpu.v[r] = BlockValue(r)
    /\ \A r \in 8..15 : cpu.v[r] = BlockChanged(r)

----------------------------------------------------------------------------
(* C17: a newly constructed CPU has the 80 font bytes at memory[0..80) and *)
(* 0 in every other byte, all 16 registers 0, I = 0, PC = 0x200, stack     *)
(* pointer 0, both timers 0, every key unpressed, every pixel unlit, and   *)
(* is not waiting for a key.                                               *)
C17_NewCpu ==
    main_pc = "load_rom" =>
        /\ \A a \in 0..(MEMORY_SIZE - 1) :
               cpu.memory[a] = IF a < 80 THEN CHIP8_FONT[a + 1] ELSE 0
        /\ DOMAIN cpu.memory = 0..4095
        /\ \A r \in 0..15 : cpu.v[r] = 0
        /\ cpu.i = 0
        /\ cpu.pc = 512
        /\ cpu.sp = 0
        /\ cpu.delay_timer = 0 /\ cpu.sound_timer = 0
        /\ \A k \in 0..15 : ~get_key_state(cpu.keypad, k)
        /\ \A r \in 0..31 : \A c \in 0..63 : cpu.display.memory[r][c] = 0
        /\ ~is_waiting_for_key(cpu)
        /\ ~cpu.panicked

\* the constructed CPU before the ROM is loaded: the glyph "0" starts the
\* font and the glyph "F" ends it
C17_Witness ==
    /\ main_pc = "load_rom"
    /\ <<cpu.memory[0], cpu.memory[1], cpu.memory[4]>> = <<240, 144, 240>>
    /\ <<cpu.memory[75], cpu.memory[79], cpu.memory[80]>> = <<240, 128, 0>>

----------------------------------------------------------------------------
(* Loading: the file may fail to open, or its reader may fail after any    *)
(* number of bytes; main ignores the result and enters its loop.           *)

MissingFile == [open_ok |-> FALSE, bytes |-> <<>>, read_err |-> FALSE]

\* the reader yields the first k bytes and then an Err
BrokenFile(bytes, k) ==
    [open_ok |-> TRUE, bytes |-> SubSeq(bytes, 1, k), read_err |-> TRUE]

LoadImages == {TimerRom(t, u) : t \in {1}, u \in 0..MaxTimer}

LoadFiles ==
    {MissingFile}
        \cup {RomFile(bytes) : bytes \in LoadImages}
        \cup {BrokenFile(bytes, k) : bytes \in LoadImages, k \in 0..14}

LoadFile(files) ==
    /\ main_pc = "load_rom"
    /\ \E file \in files : cpu' = load_rom(cpu, file)
    /\ main_pc' = "loop"
    /\ UNCHANGED overflow_checks

NextLoad ==
    \/ LoadFile(LoadFiles)
    \/ CpuCycle
    \/ UpdateCpuTimers

SpecLoad == Init /\ [][NextLoad]_vars

(* C18: when load_rom fails, because the file cannot be opened or because  *)
(* a read error occurs part-way through the byte stream, it returns an     *)
(* error message without aborting and leaves the CPU state, memory         *)
(* included, exactly as it was before the call.                            *)
C18_FailedLoadKeepsState ==
    [][ \A file \in LoadFiles :
            ( /\ main_pc = "load_rom" /\ main_pc' = "loop"
              /\ ~file.open_ok \/ file.read_err
              /\ cpu' = load_rom(cpu, file) )
                => /\ load_rom_result(cpu, file) # None
                   /\ ~cpu'.panicked
                   /\ cpu' = cpu
      ]_vars

----------------------------------------------------------------------------
IsDraw(word) == Nibbles(word)[1] = 13

(* C19: Dxyn blits the n bytes memory[I..I+n) at origin (Vx, Vy), using    *)
(* the register values held before the instruction, then sets VF to 1 if   *)
(* the blit reported a collision and to 0 otherwise (n = 0 draws nothing   *)
(* and sets VF to 0), leaves I and memory unchanged, and advances PC by 2. *)
C19_DrawInstruction ==
    [][ (Running /\ CanFetch(cpu) /\ IsDraw(WordAt(cpu, cpu.pc)) /\ CpuCycle)
          => LET op == Nibbles(WordAt(cpu, cpu.pc))
                 covered == Covered(cpu.v[op[2]], cpu.v[op[3]],
                                    Sprite(cpu, cpu.i, op[4]))
                 collision == \E c \in covered :
                                  cpu.display.memory[c[1]][c[2]] = 1
             IN /\ ~cpu'.panicked
                /\ cpu'.pc = cpu.pc + 2
                /\ cpu'.i = cpu.i
                /\ cpu'.memory = cpu.memory
                /\ \A c \in Cells :
                       cpu'.display.memory[c[1]][c[2]] =
                           IF c \in covered
                           THEN 1 - cpu.display.memory[c[1]][c[2]]
                           ELSE cpu.display.memory[c[1]][c[2]]
                /\ cpu'.v = [cpu.v EXCEPT ![CARRY_FLAG] =
                                              IF collision THEN 1 ELSE 0]
                /\ op[4] = 0 => /\ cpu'.display = cpu.display
                                /\ cpu'.v[CARRY_FLAG] = 0
      ]_vars

----------------------------------------------------------------------------
(* Framebuffer frame: a glyph is drawn and then one instruction of every   *)
(* other kind runs over the lit screen, with ticks and key events between  *)
(* them; further ROMs draw, redraw and clear.                              *)

At(k) == PROGRAM_START + 2 * k

AllOpsRom ==
    Program(<< OpNN(6, 0, 5), OpNN(6, 1, 3), OpAddr(10, 0), Op(13, 0, 1, 5),
               OpAddr(2, At(38)), OpNN(3, 0, 5), 0, OpNN(4, 0, 5),
               Op(5, 0, 1, 0), OpNN(7, 0, 1), Op(8, 0, 1, 0), Op(8, 0, 1, 1),
               Op(8, 0, 1, 2), Op(8, 0, 1, 3), Op(8, 0, 1, 4), Op(8, 0, 1, 5),
               Op(8, 0, 1, 6), Op(8, 0, 1, 7), Op(8, 0, 1, 14), Op(9, 0, 1, 0),
               0, OpAddr(10, 10), OpNN(12, 0, 1), Op(14, 0, 9, 14),
               Op(14, 0, 10, 1), Op(15, 0, 0, 7), Op(15, 0, 1, 5),
               Op(15, 0, 1, 8), Op(15, 0, 1, 14), Op(15, 0, 2, 9),
               Op(15, 0, 3, 3), Op(15, 1, 5, 5), Op(15, 1, 6, 5),
               OpNN(6, 0, 0), OpAddr(11, At(35)), OpAddr(1, At(36)),
               Op(15, 0, 0, 10), 0, Op(0, 0, 14, 14) >>)

FrameRoms ==
    {AllOpsRom}
        \cup {DrawRom(0, x, y, 0, MaxRows) : x \in DrawXs, y \in DrawYs}
        \cup {DrawRom(CARRY_FLAG, 60, y, DrawData, 2) : y \in DrawYs}

NextFrame ==
    \/ LoadRom(FrameRoms)
    \/ CpuCycle
    \/ UpdateCpuTimers
    \/ StopWaitingForKey(0)
    \/ \E state \in BOOLEAN : SetKeyState(0, state)

SpecFrame == Init /\ [][NextFrame]_vars

IsCls(word) == word = Op(0, 0, 14, 0)

(* C20: the framebuffer is changed only by 00E0, which sets all 64x32      *)
(* cells to unlit, and by Dxyn: every other instruction, every call of     *)
(* update_cpu_timers() and of stop_waiting_for_key() leaves every cell     *)
(* unchanged, and every cell always holds 0 or 1.                          *)
C20_FramebufferFrame ==
    /\ [][ cpu'.display # cpu.display
             => /\ Running /\ CanFetch(cpu) /\ CpuCycle
                /\ IsCls(WordAt(cpu, cpu.pc)) \/ IsDraw(WordAt(cpu, cpu.pc))
        ]_vars
    /\ [][ (Running /\ CanFetch(cpu) /\ IsCls(WordAt(cpu, cpu.pc)) /\ CpuCycle)
             => \A c \in Cells : cpu'.display.memory[c[1]][c[2]] = 0
        ]_vars
    /\ [](\A c \in Cells : cpu.display.memory[c[1]][c[2]] \in {0, 1})
    /\ [](/\ DOMAIN cpu.display.memory = 0..31
          /\ \A r \in 0..31 : DOMAIN cpu.display.memory[r] = 0..63)

\* the glyph drawn at (5, 3) is still on the screen after the other
\* instructions, a tick and a resolved key wait
C20_Witness ==
    /\ cpu.opcode = Op(15, 0, 0, 10) /\ cpu.pc = At(36) /\ cpu.sp = 0
    /\ ~is_waiting_for_key(cpu) /\ get_key_state(cpu.keypad, 0)
    /\ cpu.sound_timer = 0
    /\ cpu.display = draw(Display_new, 5, 3, << 240, 144, 144, 144, 240 >>).display

----------------------------------------------------------------------------
(* Glyph addresses: Fx29 for each digit, on the font as constructed and    *)
(* after a ROM has written its own bytes over the start of the font.       *)

Digits == 0..15
FontRegs == {0, CARRY_FLAG}

FontRom(x, d) ==
    Program(<< OpNN(6, x, d), Op(15, x, 2, 9), OpAddr(1, PROGRAM_START + 4) >>)

\* V0..V5 are stored over glyphs "0" and "1" before the glyph is looked up
OverwrittenFontRom(d) ==
    Program(<< OpNN(6, 0, d), OpAddr(10, 0), Op(15, 5, 5, 5),
               Op(15, 0, 2, 9), OpAddr(1, PROGRAM_START + 8) >>)

FontRoms ==
    {FontRom(x, d) : x \in FontRegs, d \in Digits}
        \cup {OverwrittenFontRom(d) : d \in Digits}

NextFont ==
    \/ LoadRom(FontRoms)
    \/ CpuCycle

SpecFont == Init /\ [][NextFont]_vars

IsLdF(word) == Nibbles(word)[1] = 15 /\ Nibbles(word)[3] = 2 /\ Nibbles(word)[4] = 9

FontIntact(m) == \A a \in 0..(FONT_SIZE - 1) : m.memory[a] = CHIP8_FONT[a + 1]

\* the five bytes of the glyph of digit d in the font table
Glyph(d) == [k \in 1..5 |-> CHIP8_FONT[5 * d + k]]

(* C21: Fx29 with Vx holding a digit d in 0..15 sets I = d * 5 and         *)
(* advances PC by 2, changing nothing else; when the font area has not     *)
(* been overwritten, memory[I..I+5) is then the 5-byte glyph of digit d.   *)
C21_GlyphAddress ==
    [][ (Running /\ CanFetch(cpu) /\ IsLdF(WordAt(cpu, cpu.pc)) /\ CpuCycle
            /\ cpu.v[Nibbles(WordAt(cpu, cpu.pc))[2]] \in Digits)
          => LET d == cpu.v[Nibbles(WordAt(cpu, cpu.pc))[2]]
             IN /\ cpu' = [cpu EXCEPT !.opcode = WordAt(cpu, cpu.pc),
                                      !.i = d * 5,
                                      !.pc = cpu.pc + 2]
                /\ FontIntact(cpu)
                     => [k \in 1..5 |-> cpu'.memory[cpu'.i + k - 1]] = Glyph(d)
      ]_vars

\* FF29 with VF = 15 has set I to 75, where the glyph "F" lies
C21_Witness ==
    /\ ~cpu.panicked /\ cpu.opcode = Op(15, 15, 2, 9)
    /\ cpu.v[CARRY_FLAG] = 15 /\ cpu.i = 75 /\ cpu.pc = PROGRAM_START + 4
    /\ [k \in 1..5 |-> cpu.memory[cpu.i + k - 1]] = << 240, 128, 240, 128, 128 >>

----------------------------------------------------------------------------
(* Call chains: k nested CALLs followed by k RETURNs.  Block j holds the   *)
(* j-th CALL and, for j > 1, the RET that follows the return into it;      *)
(* block k + 1 holds the innermost RET.  The blocks lie in ascending,      *)
(* descending or scattered order.                                          *)

ChainDepths == 1..STACK_SIZE
ChainLayouts == {"up", "down", "mixed"}

ChainSlot(layout, j) ==
    CASE layout = "up" -> j
      [] layout = "down" -> STACK_SIZE + 2 - j
      [] layout = "mixed" -> ((7 * j) % (STACK_SIZE + 1)) + 1

\* the address of block j, which is the address of the j-th CALL
Site(layout, j) == PROGRAM_START + 4 * ChainSlot(layout, j)

ChainPlaced(k, layout) ==
    {<<PROGRAM_START, OpAddr(1, Site(layout, 1))>>,
     <<Site(layout, 1) + 2, OpAddr(1, Site(layout, 1) + 2)>>,
     <<Site(layout, k + 1), Op(0, 0, 14, 14)>>}
        \cup {<<Site(layout, j), OpAddr(2, Site(layout, j + 1))>> : j \in 1..k}
        \cup {<<Site(layout, j) + 2, Op(0, 0, 14, 14)>> : j \in 2..k}

ChainRoms == {Image(ChainPlaced(k, layout)) : k \in ChainDepths,
                                              layout \in ChainLayouts}

NextChain ==
    \/ LoadRom(ChainRoms)
    \/ CpuCycle

SpecChain == Init /\ [][NextChain]_vars

\* the chain of depth k in this layout is the ROM in memory
ChainLoaded(m, k, layout) ==
    /\ main_pc = "loop"
    /\ \A p \in ChainPlaced(k, layout) : WordAt(m, p[1]) = p[2]

(* C22: the call stack is last-in first-out: for k <= 16 nested CALLs at   *)
(* A1..Ak followed by k RETURNs, the RETURNs resume at Ak + 2, ..., A1 + 2 *)
(* in that order, the stack pointer always equals the number of CALLs not  *)
(* yet returned, and it ends at its starting value.                        *)
C22_StackIsLifo ==
    /\ [](\A k \in ChainDepths, layout \in ChainLayouts :
             ChainLoaded(cpu, k, layout)
                 => /\ ~cpu.panicked
                    /\ cpu.pc = PROGRAM_START => cpu.sp = 0
                    /\ \A j \in 1..k :
                          /\ cpu.pc = Site(layout, j)
                               => /\ cpu.sp = j - 1
                                  /\ \A i \in 1..(j - 1) :
                                         cpu.stack[i - 1] = Site(layout, i)
                          /\ cpu.pc = Site(layout, j) + 2 => cpu.sp = j - 1
                    /\ cpu.pc = Site(layout, k + 1) => cpu.sp = k
                    /\ cpu.pc \in {PROGRAM_START, Site(layout, k + 1)}
                           \cup {Site(layout, j) : j \in 1..k}
                           \cup {Site(layout, j) + 2 : j \in 1..k})
    /\ [][ \A k \in ChainDepths, layout \in ChainLayouts :
             (ChainLoaded(cpu, k, layout) /\ IsRet(WordAt(cpu, cpu.pc))
                  /\ CpuCycle)
               => /\ cpu.sp \in 1..k
                  /\ cpu'.pc = Site(layout, cpu.sp) + 2
                  /\ cpu'.sp = cpu.sp - 1
        ]_vars
    /\ [][ \A k \in ChainDepths, layout \in ChainLayouts :
             (ChainLoaded(cpu, k, layout) /\ IsCall(WordAt(cpu, cpu.pc))
                  /\ CpuCycle)
               => /\ cpu.pc = Site(layout, cpu.sp + 1)
                  /\ cpu'.sp = cpu.sp + 1
                  /\ cpu'.stack[cpu.sp] = cpu.pc
        ]_vars

\* sixteen nested CALLs in scattered blocks have all returned: the last RET
\* resumed at A1 + 2 with the stack pointer back at 0
C22_Witness ==
    /\ ChainLoaded(cpu, STACK_SIZE, "mixed")
    /\ cpu.opcode = Op(0, 0, 14, 14)
    /\ cpu.pc = Site("mixed", 1) + 2 /\ cpu.sp = 0
    /\ \A j \in 1..STACK_SIZE : cpu.stack[j - 1] = Site("mixed", j)

----------------------------------------------------------------------------
(* The event loop of main: key events are handled one at a time, each      *)
(* handler running to its end before the next event, cycle or tick.        *)

\* the keypad index get_sdl_keybinds gives to each bound key
KeyBinds == 0..(NUM_KEYS - 1)

\* the bound keys the driver presses and releases
EventKeys == Keys \cup {NUM_KEYS - 1}

\* a handler that asks the CPU to stop waiting before it records the key
key_down_resolve_first(m, key) ==
    LET m1 == IF is_waiting_for_key(m) THEN stop_waiting_for_key(m, key) ELSE m
    IN [m1 EXCEPT !.keypad = set_key_state(m1.keypad, key, TRUE)]

\* Event::KeyDown for a bound key: set_key_state(key, true), then
\* stop_waiting_for_key(key) if the CPU is waiting
key_down(m, key) ==
    LET m1 == [m EXCEPT !.keypad = set_key_state(m.keypad, key, TRUE)]
    IN IF is_waiting_for_key(m1) THEN stop_waiting_for_key(m1, key) ELSE m1

\* Event::KeyUp for a bound key
key_up(m, key) == [m EXCEPT !.keypad = set_key_state(m.keypad, key, FALSE)]

KeyDown(key) ==
    /\ Running
    /\ cpu' = key_down(cpu, key)
    /\ UNCHANGED <<overflow_checks, main_pc>>

KeyUp(key) ==
    /\ Running
    /\ cpu' = key_up(cpu, key)
    /\ UNCHANGED <<overflow_checks, main_pc>>

\* a key event that carries no keycode: keycode.unwrap() panics
KeyWithoutKeycode ==
    /\ Running
    /\ cpu' = Panic(cpu)
    /\ UNCHANGED <<overflow_checks, main_pc>>

\* Event::Quit, or Escape pressed: break 'running
Quit ==
    /\ Running
    /\ main_pc' = "quit"
    /\ UNCHANGED <<cpu, overflow_checks>>

KeyRom(x) == Program(<< OpNN(6, x, 42), Op(15, x, 0, 10), OpNN(7, x, 1) >>)

KeyRoms == {KeyRom(x) : x \in {0, 1, CARRY_FLAG}}

NextKeys ==
    \/ LoadRom(KeyRoms)
    \/ \E key \in EventKeys : KeyDown(key)
    \/ \E key \in EventKeys : KeyUp(key)
    \/ KeyWithoutKeycode
    \/ Quit
    \/ CpuCycle
    \/ UpdateCpuTimers

SpecKeys == Init /\ [][NextKeys]_vars

(* C23: a key-down event for a bound key sets that key pressed before      *)
(* stop_waiting_for_key is called, and the key-up is a separate later      *)
(* event that changes nothing but that key's state; so a key-down received *)
(* while the CPU is waiting clears the wait and stores the key's index in  *)
(* the pending register within the event, before any cpu_cycle() runs.     *)
C23_KeyDownResolvesWait ==
    /\ [][ \A key \in EventKeys :
             (is_waiting_for_key(cpu) /\ KeyDown(key))
               => cpu' = [cpu EXCEPT !.keypad.keys[key] = TRUE,
                                     !.v[cpu.wait_for_key[1]] = key,
                                     !.wait_for_key = None]
        ]_vars
    /\ [][ \A key \in EventKeys :
             (~is_waiting_for_key(cpu) /\ KeyDown(key))
               => cpu' = [cpu EXCEPT !.keypad.keys[key] = TRUE]
        ]_vars
    /\ [][ \A key \in EventKeys :
             KeyUp(key) => cpu' = [cpu EXCEPT !.keypad.keys[key] = FALSE]
        ]_vars
    /\ [][ (CpuCycle /\ is_waiting_for_key(cpu'))
             => (is_waiting_for_key(cpu) \/ IsLdVxK(WordAt(cpu, cpu.pc)))
        ]_vars

\* a wait into VF was resolved by the key-down of key F, and the key has
\* been released again before the next cycle
C23_Witness ==
    /\ main_pc = "loop" /\ JustResolved(cpu)
    /\ cpu.opcode = Op(15, 15, 0, 10) /\ cpu.pc = PROGRAM_START + 2
    /\ cpu.v[CARRY_FLAG] = 15
    /\ \A k \in KeyBinds : ~get_key_state(cpu.keypad, k)

====
